---- MODULE Spec2Model ----
(***************************************************************************)
(* Model of decountCondition.py: reconciliation of a storefront catalog    *)
(* (Shopify) against a point-of-sale catalog (POS).                        *)
(*                                                                         *)
(* Money is held in hundredths (cents) so that the decimal texts the two   *)
(* remote systems send ("114.99") are exact integers here.  Where the      *)
(* program compares binary floating-point numbers, the operators below     *)
(* reproduce the outcome of the IEEE-754 double computation, not the       *)
(* outcome of exact decimal arithmetic.                                    *)
(***************************************************************************)
EXTENDS Integers, Sequences, FiniteSets, TLC

VARIABLES pc, shopify_skus, pos_resp, pos_inventory, idx, log, fin, fout

vars == <<pc, shopify_skus, pos_resp, pos_inventory, idx, log, fin, fout>>

(***************************************************************************)
(* Bounds of the model.                                                    *)
(***************************************************************************)
MaxPages == 2
MaxItems == 2
MaxRecords == 2
MaxPounds == 3
MaxRoundPounds == 30

(***************************************************************************)
(* JSON values as the program receives them.  k is the kind, v the number  *)
(* in hundredths when the kind carries one.                                *)
(*   null  : JSON null / Python None                                       *)
(*   empty : the string ""                                                 *)
(*   blank : a string of white space only                                  *)
(*   text  : a string that is no number ("abc")                            *)
(*   dec   : a string holding a decimal number ("114.99")                  *)
(*   num   : a JSON number (not a string)                                  *)
(*   inf   : a string float() reads as infinity ("inf", "1e999")           *)
(*   nan   : the string "nan"                                              *)
(***************************************************************************)
JNull == [k |-> "null", v |-> 0]
JEmpty == [k |-> "empty", v |-> 0]
JBlank == [k |-> "blank", v |-> 0]
JText == [k |-> "text", v |-> 0]
JDec(c) == [k |-> "dec", v |-> c]
JNum(c) == [k |-> "num", v |-> c]
JInf == [k |-> "inf", v |-> 0]
JNaN == [k |-> "nan", v |-> 0]

\* bool(x): None, "" and the number 0 are falsy.
PyTruthy(x) ==
    CASE x.k = "null" -> FALSE
      [] x.k = "empty" -> FALSE
      [] x.k = "num" -> x.v # 0
      [] OTHER -> TRUE

\* isinstance(x, str)
PyIsStr(x) == x.k \in {"empty", "blank", "text", "dec", "inf", "nan"}

\* bool(x.strip()) for a string x
PyStripTruthy(x) == x.k \in {"text", "dec", "inf", "nan"}

\* float(x): ok = FALSE stands for ValueError (a string that is no number)
\* or TypeError (None); both are caught by `except (ValueError, TypeError)`.
PyFloat(x) ==
    IF x.k \in {"dec", "num"} THEN [ok |-> TRUE, c |-> "fin", v |-> x.v]
    ELSE IF x.k \in {"inf", "nan"} THEN [ok |-> TRUE, c |-> x.k, v |-> 0]
    ELSE [ok |-> FALSE, c |-> "fin", v |-> 0]

\* A float: c is "fin" (v hundredths), "inf" (positive infinity) or "nan".
Fin(v) == [c |-> "fin", v |-> v]
FInf == [c |-> "inf", v |-> 0]
FNaN == [c |-> "nan", v |-> 0]

\* a > b on floats: false when either is nan.
FloatGt(a, b) ==
    IF a.c = "nan" \/ b.c = "nan" THEN FALSE
    ELSE IF a.c = "inf" THEN b.c # "inf"
    ELSE IF b.c = "inf" THEN FALSE
    ELSE a.v > b.v

\* int(x) of a number held in hundredths: truncation towards zero.
PyInt(c) == IF c >= 0 THEN c \div 100 ELSE -((-c) \div 100)

Abs(n) == IF n >= 0 THEN n ELSE -n

RECURSIVE e2(_)
e2(n) == IF n = 0 THEN 1 ELSE 2 * e2(n - 1)

(***************************************************************************)
(* sanitize_sku: a SKU is [isStr, s], s the sequence of its characters     *)
(* (for a non-string value, the characters of str(value)).                 *)
(***************************************************************************)
NonPrintable == {"\t"}

IsPrintable(ch) == ch \notin NonPrintable

sanitize_sku(sku) ==
    IF ~sku.isStr THEN <<>> ELSE SelectSeq(sku.s, IsPrintable)

(***************************************************************************)
(* round_to_5_or_10, on a price in hundredths; the result is in pounds.    *)
(***************************************************************************)
\* A faulty variant: the remainder is not taken off before 5 is added.
round_to_5_or_10_mut(price) ==
    LET price_pounds == PyInt(price)
        last_digit == price_pounds % 10
    IN  IF last_digit = 0 \/ last_digit = 5 THEN price_pounds
        ELSE IF last_digit < 5 THEN price_pounds + 5
        ELSE price_pounds - last_digit + 10

round_to_5_or_10(price) ==
    LET price_pounds == PyInt(price)
        last_digit == price_pounds % 10
    IN  IF last_digit = 0 \/ last_digit = 5 THEN price_pounds
        ELSE IF last_digit < 5 THEN price_pounds - last_digit + 5
        ELSE price_pounds - last_digit + 10

(***************************************************************************)
(* Binary floating point.  float("114.99") is the double nearest to the    *)
(* decimal; whether that double lies above or below the decimal decides    *)
(* `abs(current - target) <= 0.01` when the two prices are one hundredth   *)
(* apart.  For c hundredths with 2^e <= c/100 < 2^(e+1) the double is      *)
(* c * 2^(52-e) / 100 rounded to an integer, so the direction of rounding  *)
(* is read off the remainder of c * 2^(52-e) modulo 100.                   *)
(***************************************************************************)
RECURSIVE Log2Up(_, _, _)
Log2Up(n, unit, e) ==
    IF 2 * unit * e2(e) <= n THEN Log2Up(n, unit, e + 1) ELSE e

RECURSIVE Log2Down(_, _, _)
Log2Down(n, unit, e) ==
    IF n * e2(e) < unit THEN Log2Down(n, unit, e + 1) ELSE -e

\* The binary exponent e of n/unit > 0: 2^e <= n/unit < 2^(e+1).
Exponent(n, unit) ==
    IF n >= unit THEN Log2Up(n, unit, 0) ELSE Log2Down(n, unit, 0)

RECURSIVE Pow2Mod(_, _)
Pow2Mod(k, m) == IF k = 0 THEN 1 ELSE (2 * Pow2Mod(k - 1, m)) % m

\* The error s of the double of c/100 (c > 0), in hundredths of its last
\* binary place: double = (c * 2^k + s) / (100 * 2^k), k = 52 - exponent.
FloatError(c) ==
    LET r == ((c % 100) * Pow2Mod(52 - Exponent(c, 100), 100)) % 100
    IN  IF r = 0 THEN 0 ELSE IF r < 50 THEN -r ELSE 100 - r

\* TRUE when the double of c/100 (c > 0) is greater than c/100.
FloatRoundsUp(c) == FloatError(c) > 0

\* abs(current_price_float - target_price) <= tolerance, target in pounds,
\* current in hundredths (both >= 0), tolerance = 0.01.
WithinTolerance(cur, target) ==
    LET d == cur - 100 * target
    IN  IF d = 0 THEN TRUE
        ELSE IF Abs(d) >= 2 THEN FALSE
        ELSE IF cur < 100 THEN TRUE
        ELSE IF d = -1 THEN FloatRoundsUp(cur)
        ELSE ~FloatRoundsUp(cur)

(***************************************************************************)
(* update_shopify_price.                                                   *)
(***************************************************************************)
\* The rounding of N / Dn last places to the whole number R: to nearest,
\* a half by the sign sgn of what the scaled N leaves out, and an exact half
\* to the even mantissa (bit is the last bit of the double just below t).
TieRound(F, Dn, N, sgn, bit) ==
    LET fl == N \div Dn
        rem == N - (N \div Dn) * Dn
        R == IF 2 * rem > Dn THEN fl + 1
             ELSE IF 2 * rem < Dn THEN fl
             ELSE IF sgn > 0 THEN fl + 1
             ELSE IF sgn < 0 THEN fl
             ELSE IF (bit + fl) % 2 = 0 THEN fl ELSE fl + 1
    IN  IF F = 0 THEN (IF R > 0 THEN 1 ELSE IF R < 0 THEN -1 ELSE 0)
        ELSE IF R >= 1 THEN 1 ELSE -1

\* F is the fraction of a last place by which t exceeds the double just
\* below it, in 10^-4; sh scales away the negative exponent of a base price
\* under one pound.
TieScaled(pos_price, q, ex, s, sy, ep, sh) ==
    TieRound(((q % 10000) * Pow2Mod(52 - ep, 10000)) % 10000,
             10000 * e2(ep + sh),
             (((q % 10000) * Pow2Mod(52 - ep, 10000)) % 10000) * e2(ep + sh)
                 + pos_price * sy * e2(sh) + 115 * s * e2(ex + sh),
             s * sy,
             (((q % 20000) * Pow2Mod(52 - ep, 20000)) % 20000) \div 10000)

TieProduct(pos_price, q, ex, s, sy, ep) ==
    TieScaled(pos_price, q, ex, s, sy, ep, IF ex < 0 THEN -ex ELSE 0)

\* Line 219 when pos_price * 1.15 is, in decimals, exactly half a hundredth:
\* round() then goes by the double of the product.  With s and sy the errors
\* of the doubles of pos_price and of 1.15, t = q / 10^4 the decimal product
\* and ep its exponent, the exact product of the two doubles lies N / Dn
\* last places (of the binade of t) above the double just below t; the
\* multiplication rounds that to a whole number R of last places.  The
\* answer is 1 when the double of the product is above t, -1 when it is
\* below, 0 when it is t itself.
TieDirection(pos_price) ==
    TieProduct(pos_price, pos_price * 115, Exponent(pos_price, 100),
               FloatError(pos_price), FloatError(115),
               Exponent(pos_price * 115, 10000))

\* round(pos_price * 1.15, 2), in hundredths, for pos_price >= 0 in
\* hundredths.  Away from half a hundredth the double and the decimal
\* product round alike; on it the double decides, and a double that is the
\* half itself goes to the even hundredth.
MarkupRounded(pos_price) ==
    LET q == pos_price * 115
        m == q \div 100
    IN  IF q % 100 > 50 THEN m + 1
        ELSE IF q % 100 < 50 THEN m
        ELSE LET dir == TieDirection(pos_price)
             IN  IF dir > 0 THEN m + 1
                 ELSE IF dir < 0 THEN m
                 ELSE IF m % 2 = 0 THEN m ELSE m + 1

\* Lines 218-222: the target price in pounds.
target_price(pos_price) == round_to_5_or_10(MarkupRounded(pos_price))

\* A faulty variant: the comparison of line 210 is the wrong way round.
has_discount_mut(current_shopify_price, compare_at_price) ==
    IF ~PyTruthy(compare_at_price) THEN "none"
    ELSE IF ~PyIsStr(compare_at_price) THEN "raise"
    ELSE IF ~PyStripTruthy(compare_at_price) THEN "none"
    ELSE LET compare_price_float == PyFloat(compare_at_price)
             current_price_float == PyFloat(current_shopify_price)
         IN  IF compare_price_float.ok /\ current_price_float.ok
                /\ FloatGt(current_price_float, compare_price_float)
             THEN "discount" ELSE "none"

\* Lines 202-216: "discount" when the guard returns, "none" when the
\* function goes on, "raise" when compare_at_price.strip() does not exist
\* (AttributeError is not among the exceptions caught).
has_discount(current_shopify_price, compare_at_price) ==
    IF ~PyTruthy(compare_at_price) THEN "none"
    ELSE IF ~PyIsStr(compare_at_price) THEN "raise"
    ELSE IF ~PyStripTruthy(compare_at_price) THEN "none"
    ELSE LET compare_price_float == PyFloat(compare_at_price)
             current_price_float == PyFloat(current_shopify_price)
         IN  IF compare_price_float.ok /\ current_price_float.ok
                /\ FloatGt(compare_price_float, current_price_float)
             THEN "discount" ELSE "none"

\* A faulty variant: line 233 without the tolerance test.
price_decision_mut(pos_price, current_shopify_price) ==
    LET target == target_price(pos_price.v)
        current_price_float == PyFloat(current_shopify_price)
    IN  IF pos_price.c # "fin"
        THEN [d |-> "Raise", target |-> 0]
        ELSE IF ~current_price_float.ok
        THEN [d |-> "ParseError", target |-> target]
        ELSE IF FloatGt(current_price_float, Fin(100 * target))
        THEN [d |-> "Skip", target |-> target]
        ELSE [d |-> "Update", target |-> target]

\* Lines 218-235: the decision taken from the base price (a float) and the
\* current price once the discount guard has let the item through.  For an
\* infinite or nan base price int() at line 32 raises OverflowError or
\* ValueError, which nothing catches.
price_decision(pos_price, current_shopify_price) ==
    LET target == target_price(pos_price.v)
        current_price_float == PyFloat(current_shopify_price)
    IN  IF pos_price.c # "fin"
        THEN [d |-> "Raise", target |-> 0]
        ELSE IF ~current_price_float.ok
        THEN [d |-> "ParseError", target |-> target]
        ELSE IF (current_price_float.c = "fin"
                    /\ WithinTolerance(current_price_float.v, target))
                \/ FloatGt(current_price_float, Fin(100 * target))
        THEN [d |-> "Skip", target |-> target]
        ELSE [d |-> "Update", target |-> target]

\* The whole function; http is the outcome of requests.put when it is
\* reached.  ret is the value returned, put tells whether the price-update
\* call was issued and price is the price it carried.
update_shopify_price(pos_price, current_shopify_price, compare_at_price, http) ==
    LET guard == has_discount(current_shopify_price, compare_at_price)
        dec == price_decision(pos_price, current_shopify_price)
    IN  IF guard = "raise"
        THEN [outcome |-> "Raised", ret |-> FALSE, put |-> FALSE, price |-> 0]
        ELSE IF guard = "discount"
        THEN [outcome |-> "SkippedDiscount", ret |-> FALSE, put |-> FALSE, price |-> 0]
        ELSE IF dec.d = "Raise"
        THEN [outcome |-> "Raised", ret |-> FALSE, put |-> FALSE, price |-> 0]
        ELSE IF dec.d = "ParseError"
        THEN [outcome |-> "ParseError", ret |-> FALSE, put |-> FALSE, price |-> 0]
        ELSE IF dec.d = "Skip"
        THEN [outcome |-> "SkippedAtTarget", ret |-> FALSE, put |-> FALSE, price |-> 0]
        ELSE IF http = "ok"
        THEN [outcome |-> "Updated", ret |-> TRUE, put |-> TRUE, price |-> dec.target]
        ELSE [outcome |-> "TransportError", ret |-> FALSE, put |-> TRUE, price |-> dec.target]

(***************************************************************************)
(* update_shopify_stock: http is what the storefront answers.              *)
(*   ok              : 200, userErrors empty                     -> True   *)
(*   user_errors     : 200, userErrors not empty                 -> False  *)
(*   transport_error : RequestException (timeout, 4xx, 5xx)      -> False  *)
(*   errors_only     : 200, a body with no "data" member         -> True   *)
(*   data_null       : 200, "data" (or the mutation's member) is null:     *)
(*                     None.get raises AttributeError, not caught          *)
(***************************************************************************)
StockResponses ==
    {"ok", "user_errors", "transport_error", "errors_only", "data_null"}

update_shopify_stock(http) ==
    IF http = "transport_error" THEN "False"
    ELSE IF http = "data_null" THEN "Raised"
    ELSE IF http = "user_errors" THEN "False"
    ELSE "True"

(***************************************************************************)
(* What a snapshot builder hands back: None, a value, or no value at all   *)
(* because an exception left the function.                                 *)
(***************************************************************************)
None == [some |-> FALSE, raised |-> FALSE, val |-> <<>>]
Some(x) == [some |-> TRUE, raised |-> FALSE, val |-> x]
Raises == [some |-> FALSE, raised |-> TRUE, val |-> <<>>]

\* `not x` for a list or a dict that may be None: None and the empty
\* collection are both falsy.  An empty dict is the function of domain {}.
PyNot(x) == ~x.some \/ DOMAIN x.val = {}

(***************************************************************************)
(* get_shopify_skus.  A page of the listing is [err, variants]; the Link   *)
(* header names the next page on every page but the last.  A variant is    *)
(* [sku, inventory_item_id, id, price, compare_at_price], price being      *)
(* [k |-> "missing"] when the member is not there.                         *)
(***************************************************************************)
Str(s) == [isStr |-> TRUE, s |-> s]

SkuTruthy(sku) == sku.s # <<>>

\* variant.get("price", "0.0")
GetPrice(variant) ==
    IF variant.price.k = "missing" THEN JDec(0) ELSE variant.price

\* Lines 62-71: the entries one page contributes.
RECURSIVE PageEntries(_, _)
PageEntries(variants, i) ==
    IF i > Len(variants) THEN <<>>
    ELSE LET variant == variants[i]
         IN  (IF SkuTruthy(variant.sku) /\ variant.inventory_item_id # 0
              THEN << [sku |-> variant.sku,
                       inventory_item_id |-> variant.inventory_item_id,
                       variant_id |-> variant.id,
                       current_price |-> GetPrice(variant),
                       compare_at_price |-> variant.compare_at_price] >>
              ELSE <<>>) \o PageEntries(variants, i + 1)

RECURSIVE FetchPages(_, _, _)
FetchPages(pages, i, skus) ==
    IF i > Len(pages) THEN Some(skus)
    ELSE IF pages[i].err THEN None
    ELSE FetchPages(pages, i + 1, skus \o PageEntries(pages[i].variants, 1))

get_shopify_skus(pages) == FetchPages(pages, 1, <<>>)

(***************************************************************************)
(* get_all_pos_inventory.  The response is [status, data]; a record of     *)
(* data is [falsy, hasID, ID, hasQua, Qua, hasPrice, Price].               *)
(***************************************************************************)
\* Line 107
HasAllFields(item) == ~item.falsy /\ item.hasID /\ item.hasQua /\ item.hasPrice

\* Lines 109-110: what the two conversions of a record do.  float() raises
\* ValueError or TypeError on a value it rejects and int() raises ValueError
\* on nan, all caught at line 126 ("none"); int() raises OverflowError on
\* infinity, which no handler of the function catches ("raise").  The
\* quantity is converted first.
Converts(item) ==
    LET qua == PyFloat(item.Qua)
    IN  IF ~qua.ok \/ qua.c = "nan" THEN "none"
        ELSE IF qua.c = "inf" THEN "raise"
        ELSE IF ~PyFloat(item.Price).ok THEN "none"
        ELSE "ok"

\* Lines 108-114: the map after one record that passed line 107.
PutRecord(map, item) ==
    LET sku == item.ID.s
        price == PyFloat(item.Price)
        entry == [quantity |-> PyInt(PyFloat(item.Qua).v),
                  price |-> [c |-> price.c, v |-> price.v]]
    IN  [key \in DOMAIN map \cup {sku} |->
            IF key = sku THEN entry ELSE map[key]]

RECURSIVE PosLoop(_, _, _)
PosLoop(pos_data, i, map) ==
    IF i > Len(pos_data) THEN Some(map)
    ELSE IF ~HasAllFields(pos_data[i]) THEN PosLoop(pos_data, i + 1, map)
    ELSE IF Converts(pos_data[i]) = "none" THEN None
    ELSE IF Converts(pos_data[i]) = "raise" THEN Raises
    ELSE PosLoop(pos_data, i + 1, PutRecord(map, pos_data[i]))

EmptyMap == [key \in {} |-> 0]

get_all_pos_inventory(resp) ==
    IF resp.status # "ok" THEN None ELSE PosLoop(resp.data, 1, EmptyMap)

(***************************************************************************)
(* Inputs of a run: what the two remote systems may answer.                *)
(***************************************************************************)
SeqsUpTo(S, n) == UNION {[1..m -> S] : m \in 0..n}

SkuA == Str(<<"A">>)
SkuATab == Str(<<"A", "\t">>)
SkuB == Str(<<"B">>)

VariantPool ==
    { [sku |-> SkuA, inventory_item_id |-> 1, id |-> 1,
       price |-> JDec(9000), compare_at_price |-> JDec(12000)],
      [sku |-> SkuATab, inventory_item_id |-> 2, id |-> 2,
       price |-> JDec(10000), compare_at_price |-> JNull],
      [sku |-> SkuA, inventory_item_id |-> 3, id |-> 3,
       price |-> JDec(11499), compare_at_price |-> JNum(12000)],
      [sku |-> SkuB, inventory_item_id |-> 4, id |-> 4,
       price |-> JText, compare_at_price |-> JDec(12000)],
      [sku |-> SkuB, inventory_item_id |-> 0, id |-> 5,
       price |-> [k |-> "missing", v |-> 0], compare_at_price |-> JNull] }

ErrPage == [err |-> TRUE, variants |-> <<>>]

\* The pages that carry at most k variants.
Pages(k) == {ErrPage} \cup
            {[err |-> FALSE, variants |-> vs] : vs \in SeqsUpTo(VariantPool, k)}

\* The listings of exactly n pages that carry at most k variants in all.
RECURSIVE ListingsOf(_, _)
ListingsOf(n, k) ==
    IF n = 0 THEN {<<>>}
    ELSE UNION {{<<page>> \o rest :
                    rest \in ListingsOf(n - 1, k - Len(page.variants))} :
                page \in Pages(k)}

\* At least one page is always requested.
Listings == UNION {ListingsOf(n, MaxItems) : n \in 1..MaxPages}

PosRecord(id, hasQua, qua, price) ==
    [falsy |-> FALSE, hasID |-> TRUE, ID |-> id, hasQua |-> hasQua,
     Qua |-> qua, hasPrice |-> TRUE, Price |-> price]

FalsyRecord ==
    [falsy |-> TRUE, hasID |-> FALSE, ID |-> Str(<<>>), hasQua |-> FALSE,
     Qua |-> JNull, hasPrice |-> FALSE, Price |-> JNull]

RecordPool ==
    { PosRecord(SkuA, TRUE, JDec(300), JDec(10000)),
      PosRecord(SkuATab, TRUE, JDec(250), JDec(1700)),
      PosRecord(SkuA, TRUE, JNum(700), JDec(5304)),
      PosRecord(SkuB, FALSE, JNull, JDec(100)),
      PosRecord(SkuB, TRUE, JText, JDec(100)),
      PosRecord(SkuB, TRUE, JInf, JDec(100)),
      PosRecord(SkuA, TRUE, JDec(100), JNaN),
      FalsyRecord }

PosResponses ==
    {[status |-> "transport_error", data |-> <<>>],
     [status |-> "bad_json", data |-> <<>>]} \cup
    {[status |-> "ok", data |-> d] : d \in SeqsUpTo(RecordPool, MaxRecords)}

NoResponse == [status |-> "none", data |-> <<>>]

(***************************************************************************)
(* main: the reconciliation run.                                           *)
(***************************************************************************)
Entry(i, op, res, put, val) ==
    [item |-> i, op |-> op, res |-> res, put |-> put, val |-> val]

Init ==
    /\ pc = "env"
    /\ shopify_skus = None
    /\ pos_resp = NoResponse
    /\ pos_inventory = None
    /\ idx = 1
    /\ log = <<>>
    /\ fin = <<>>
    /\ fout = <<>>

\* Lines 265-269
CheckEnv ==
    /\ pc = "env"
    /\ \E present \in BOOLEAN :
          pc' = IF present THEN "fetch_shopify" ELSE "exit_env"
    /\ UNCHANGED <<shopify_skus, pos_resp, pos_inventory, idx, log, fin, fout>>

\* Lines 271-274
FetchShopify ==
    /\ pc = "fetch_shopify"
    /\ \E pages \in Listings :
          /\ shopify_skus' = get_shopify_skus(pages)
          /\ pc' = IF PyNot(shopify_skus') THEN "exit_shopify" ELSE "fetch_pos"
    /\ UNCHANGED <<pos_resp, pos_inventory, idx, log, fin, fout>>

\* Lines 276-279
FetchPos ==
    /\ pc = "fetch_pos"
    /\ \E resp \in PosResponses :
          /\ pos_resp' = resp
          /\ pos_inventory' = get_all_pos_inventory(resp)
          /\ pc' = IF pos_inventory'.raised THEN "crashed_pos"
                   ELSE IF PyNot(pos_inventory') THEN "exit_pos" ELSE "loop"
    /\ UNCHANGED <<shopify_skus, idx, log, fin, fout>>

\* Lines 283-293, 301-304: take the next item and look it up.
Lookup ==
    /\ pc = "loop"
    /\ IF idx > Len(shopify_skus.val)
       THEN /\ pc' = "done"
            /\ UNCHANGED <<idx, log>>
       ELSE LET clean_sku == sanitize_sku(shopify_skus.val[idx].sku)
            IN  IF clean_sku \in DOMAIN pos_inventory.val
                THEN /\ pc' = "stock"
                     /\ UNCHANGED <<idx, log>>
                ELSE /\ log' = Append(log, Entry(idx, "unmatched", "Unmatched", FALSE, 0))
                     /\ idx' = idx + 1
                     /\ pc' = "loop"
    /\ UNCHANGED <<shopify_skus, pos_resp, pos_inventory, fin, fout>>

\* Lines 294-296
SyncStock ==
    /\ pc = "stock"
    /\ \E http \in StockResponses :
          LET pos_data == pos_inventory.val[sanitize_sku(shopify_skus.val[idx].sku)]
              res == update_shopify_stock(http)
          IN  /\ log' = Append(log, Entry(idx, "stock", res, TRUE, pos_data.quantity))
              /\ pc' = IF res = "Raised" THEN "crashed" ELSE "price"
    /\ UNCHANGED <<shopify_skus, pos_resp, pos_inventory, idx, fin, fout>>

\* Lines 298-300, 304
SyncPrice ==
    /\ pc = "price"
    /\ \E http \in {"ok", "error"} :
          LET item == shopify_skus.val[idx]
              pos_data == pos_inventory.val[sanitize_sku(item.sku)]
              res == update_shopify_price(pos_data.price, item.current_price,
                                          item.compare_at_price, http)
          IN  /\ log' = Append(log, Entry(idx, "price", res.outcome, res.put, res.price))
              /\ IF res.outcome = "Raised"
                 THEN pc' = "crashed" /\ UNCHANGED idx
                 ELSE pc' = "loop" /\ idx' = idx + 1
    /\ UNCHANGED <<shopify_skus, pos_resp, pos_inventory, fin, fout>>

Next == CheckEnv \/ FetchShopify \/ FetchPos \/ Lookup \/ SyncStock \/ SyncPrice

Spec == Init /\ [][Next]_vars

(***************************************************************************)
(* update_shopify_price on its own: one call for an item, then the call a  *)
(* second run makes for the same item when the base price has not changed. *)
(* fin holds the arguments, fout the results of the calls made so far.     *)
(***************************************************************************)
PosPrices ==
    {100 * k : k \in 0..MaxPounds}
        \cup {210, 250, 1700, 1739, 3130, 5304, 10000, 13130}

PosPriceValues == {Fin(p) : p \in PosPrices} \cup {FInf, FNaN}

Targets == {target_price(p) : p \in PosPrices}

CurCents ==
    {c \in {100 * t + d : t \in Targets, d \in {-500, -2, -1, 0, 1, 2, 500}} :
        c >= 0}

CurValues ==
    {JNull, JText, JInf, JNaN} \cup {JDec(c) : c \in CurCents}
                   \cup {JNum(100 * t) : t \in Targets}

RefValues ==
    {JNull, JEmpty, JBlank, JText, JInf, JNaN, JNum(0), JNum(12000)}
        \cup {JDec(100 * t + d) : t \in Targets, d \in {0, 1}}

InitPrice ==
    /\ pc = "price_call"
    /\ fin \in [pos : PosPriceValues, cur : CurValues, ref : RefValues]
    /\ fout = <<>>
    /\ shopify_skus = None
    /\ pos_resp = NoResponse
    /\ pos_inventory = None
    /\ idx = 1
    /\ log = <<>>

CallPrice ==
    /\ pc = "price_call"
    /\ \E http \in {"ok", "error"} :
          fout' = <<update_shopify_price(fin.pos, fin.cur, fin.ref, http)>>
    /\ pc' = IF fout'[1].outcome = "Raised" THEN "crashed" ELSE "price_rerun"
    /\ UNCHANGED <<shopify_skus, pos_resp, pos_inventory, idx, log, fin>>

\* The price the storefront holds after the first call: the price of the
\* PUT (line 247) when it succeeded, the old one otherwise.
PriceAfter(cur, res) ==
    IF res.outcome = "Updated" THEN JDec(100 * res.price) ELSE cur

RerunPrice ==
    /\ pc = "price_rerun"
    /\ \E http \in {"ok", "error"} :
          fout' = Append(fout, update_shopify_price(
                             fin.pos, PriceAfter(fin.cur, fout[1]), fin.ref, http))
    /\ pc' = "price_end"
    /\ UNCHANGED <<shopify_skus, pos_resp, pos_inventory, idx, log, fin>>

NextPrice == CallPrice \/ RerunPrice

SpecPrice == InitPrice /\ [][NextPrice]_vars

(***************************************************************************)
(* round_to_5_or_10 on its own, over prices of either sign.                *)
(***************************************************************************)
RoundInputs == {25 * k : k \in (-4 * MaxRoundPounds)..(4 * MaxRoundPounds)}

InitRound ==
    /\ pc = "round_call"
    /\ fin \in [price : RoundInputs]
    /\ fout = <<>>
    /\ shopify_skus = None
    /\ pos_resp = NoResponse
    /\ pos_inventory = None
    /\ idx = 1
    /\ log = <<>>

CallRound ==
    /\ pc = "round_call"
    /\ fout' = <<round_to_5_or_10(fin.price)>>
    /\ pc' = "round_end"
    /\ UNCHANGED <<shopify_skus, pos_resp, pos_inventory, idx, log, fin>>

NextRound == CallRound

SpecRound == InitRound /\ [][NextRound]_vars

(***************************************************************************)
(* Properties of the run (specification Spec).                             *)
(***************************************************************************)
Started == shopify_skus.some /\ pos_inventory.some

Items == IF shopify_skus.some THEN shopify_skus.val ELSE <<>>

Matched(i) == sanitize_sku(Items[i].sku) \in DOMAIN pos_inventory.val

EntriesOf(i, op) == {n \in 1..Len(log) : log[n].item = i /\ log[n].op = op}

\* The reference price is a text that parses to a number greater than the
\* current price.
RefAbove(current, ref) ==
    /\ ref.k \in {"dec", "inf"}
    /\ PyFloat(current).ok
    /\ FloatGt(PyFloat(ref), PyFloat(current))

\* C1: for a matched storefront item whose reference price parses to a
\* number strictly greater than its current price, every price sync ends as
\* SkippedDiscount and issues no price-update call, whatever the base price.
C1_DiscountNeverUpdated ==
    \A n \in 1..Len(log) :
        (log[n].op = "price"
            /\ RefAbove(Items[log[n].item].current_price,
                        Items[log[n].item].compare_at_price))
        => (log[n].res = "SkippedDiscount" /\ ~log[n].put)

\* A discounted item went through price sync although its base price puts
\* the target above its current price.
C1_Witness ==
    \E n \in 1..Len(log) :
        /\ log[n].op = "price"
        /\ RefAbove(Items[log[n].item].current_price,
                    Items[log[n].item].compare_at_price)
        /\ log[n].res = "SkippedDiscount"
        /\ price_decision(
              pos_inventory.val[sanitize_sku(Items[log[n].item].sku)].price,
              Items[log[n].item].current_price).d = "Update"

\* The normalized identifiers of the authoritative records that carry the
\* three required members.
AuthKeys ==
    {SelectSeq(pos_resp.data[j].ID.s, IsPrintable) :
        j \in {j \in 1..Len(pos_resp.data) : HasAllFields(pos_resp.data[j])}}

MatchingItems == {i \in 1..Len(Items) : sanitize_sku(Items[i].sku) \in AuthKeys}

SyncedItems == {i \in 1..Len(Items) : EntriesOf(i, "stock") # {}}

UnmatchedItems == {i \in 1..Len(Items) : EntriesOf(i, "unmatched") # {}}

\* C6: with M storefront items of which K have a normalized SKU equal to a
\* normalized authoritative identifier, a completed run has sent exactly K
\* items to stock/price sync and reported exactly M-K as Unmatched.
C6_JoinCorrect ==
    pc = "done" =>
        /\ Cardinality(SyncedItems) = Cardinality(MatchingItems)
        /\ Cardinality(UnmatchedItems) = Len(Items) - Cardinality(MatchingItems)

\* Item i has been left behind: the run moved on to a later item or ended.
Left(i) == i < idx \/ (i = idx /\ pc \in {"done", "crashed"})

\* C7: every matched item gets exactly one stock update, before its price
\* sync, and its price sync is attempted whatever the stock update did; an
\* item is processed completely before the next one begins.
C7_StockThenPrice ==
    Started =>
        \A i \in 1..Len(Items) :
            (Left(i) /\ Matched(i)) =>
                /\ Cardinality(EntriesOf(i, "stock")) = 1
                /\ Cardinality(EntriesOf(i, "price")) = 1
                /\ \A n \in EntriesOf(i, "stock"), m \in EntriesOf(i, "price") : n < m

\* C8: no failure of a stock sync or of a price sync leaves its function as
\* an exception, so the run is never cut short by one.
C8_NeverAborts == pc # "crashed"

\* A record with the three members, each a finite number.
WellFormed(item) ==
    /\ HasAllFields(item)
    /\ PyFloat(item.Qua).ok /\ PyFloat(item.Qua).c = "fin"
    /\ PyFloat(item.Price).ok /\ PyFloat(item.Price).c = "fin"

\* C9: a response that arrived and parsed yields a snapshot, which holds
\* every well-formed record and nothing else; a bad record is only dropped.
C9_BadRecordDropped ==
    pos_resp.status = "ok" =>
        /\ ~pos_inventory.raised
        /\ pos_inventory.some
        /\ DOMAIN pos_inventory.val =
              {pos_resp.data[j].ID.s :
                  j \in {j \in 1..Len(pos_resp.data) : WellFormed(pos_resp.data[j])}}

\* C10: the run stops before the loop only when a snapshot is absent; a
\* snapshot that was built, empty or not, lets the run go on, and a run
\* whose authoritative snapshot matches nothing reports every item Unmatched.
C10_AbortOnlyOnAbsent ==
    /\ pc = "exit_shopify" => ~shopify_skus.some
    /\ pc = "exit_pos" => ~pos_inventory.some
    /\ (pc = "done" /\ MatchingItems = {}) =>
          UnmatchedItems = 1..Len(Items)

(***************************************************************************)
(* Properties of update_shopify_price (specification SpecPrice).           *)
(***************************************************************************)
Called == pc \in {"price_rerun", "price_end", "crashed"} /\ Len(fout) >= 1

\* C2: the discount guard answers true exactly when the reference price
\* parses to a number strictly greater than the current price, and for any
\* other reference value it answers false without raising.
C2_IsDiscounted ==
    (Called /\ fin.pos.c = "fin") =>
        /\ fout[1].outcome # "Raised"
        /\ fout[1].outcome = "SkippedDiscount" <=> RefAbove(fin.cur, fin.ref)

\* C3: when the first call decides Update(newPrice), the decision for the
\* same base price and current price newPrice is Skip, and the second run
\* issues no price update.
C3_Idempotent ==
    (Called /\ fout[1].put) =>
        /\ price_decision(fin.pos, JDec(100 * fout[1].price)).d = "Skip"
        /\ (Len(fout) = 2 /\ fout[1].outcome = "Updated") => ~fout[2].put

\* The first run updated the price and the second run found it at target.
C3_Witness ==
    /\ Len(fout) = 2
    /\ fout[1].outcome = "Updated"
    /\ fout[2].outcome = "SkippedAtTarget"

\* C4: no price update is issued when the current price is within 0.01 of
\* the target or above it, and an update that is issued raises the price.
C4_SkipAtOrAboveTarget ==
    (Called /\ fin.pos.c = "fin") =>
        LET cur == PyFloat(fin.cur)
            target == target_price(fin.pos.v)
        IN  /\ (cur.ok /\ cur.c = "fin"
                   /\ (Abs(cur.v - 100 * target) <= 1 \/ cur.v > 100 * target))
                  => ~fout[1].put
            /\ fout[1].put => FloatGt(Fin(100 * fout[1].price), cur)

(***************************************************************************)
(* Properties of round_to_5_or_10 (specification SpecRound).               *)
(***************************************************************************)
\* C5: the rounded price is a multiple of 5, is not below the truncated
\* price, and equals it when the truncated price ends in 0 or 5.
C5_RoundUp ==
    pc = "round_end" =>
        /\ fout[1] % 5 = 0
        /\ fout[1] >= PyInt(fin.price)
        /\ (PyInt(fin.price) % 10 \in {0, 5}) => fout[1] = PyInt(fin.price)

\* A price with a fraction whose whole part ends in 6 was moved up to 10.
C5_Witness ==
    /\ pc = "round_end"
    /\ fin.price = 675
    /\ fout[1] = 10

====
